---- MODULE Spec2Model ----
(***************************************************************************)
(* Model of the AQI analysis pipeline (zhiwei85/aqi-analysis):             *)
(*   scripts/moenv_aqi_api.py   MOENVAQIAPI      (normalize, sort, stats)  *)
(*   scripts/distance_analysis.py DistanceAnalyzer (distance, banding)     *)
(*   scripts/aqi_map.py         AQIMapVisualizer (markers, heatmap)        *)
(*   main.py                    run_aqi_analysis (the six-step run)        *)
(*                                                                         *)
(* Numbers are fixed point: a Python float x is the integer x * Scale.     *)
(* Strings are sequences of code points.  A call that can raise returns    *)
(* [exc |-> <exception class or "none">, val |-> <value>].                 *)
(***************************************************************************)
EXTENDS Integers, Sequences, FiniteSets, TLC

\* ------------------------------------------------------------------ bounds
MaxLen == 3        \* longest string handed to _parse_numeric by a probe
MaxRecords == 3    \* longest upstream snapshot
Delta == 1         \* probes lie within Delta units of each band threshold

Scale == 100 * 100 \* fixed-point unit: 1.0 is Scale (four decimal places)

\* ------------------------------------------------------- Python values
None == [t |-> "None"]
NaN == [t |-> "nan"]
PosInf == [t |-> "inf"]
Num(v) == [t |-> "num", v |-> v]

IsNum(x) == x.t = "num"
\* pandas notna(): None and NaN are missing, inf is not
notna(x) == x.t \notin {"None", "nan"}

Ok(v) == [exc |-> "none", val |-> v]
Raise(e) == [exc |-> e, val |-> None]

\* ------------------------------------------------ decoded JSON values
JNull == [j |-> "null"]
JStr(s) == [j |-> "str", s |-> s]
JNum(v) == [j |-> "num", v |-> v]
JInf == [j |-> "inf"]               \* a number literal beyond the float range, e.g. 1e999
JBig == [j |-> "bigint"]            \* an integer literal beyond the float range, e.g. 10**400
JBool(b) == [j |-> "bool", b |-> b]
JList == [j |-> "list"]
JObj(f) == [j |-> "obj", f |-> f]

\* ------------------------------------------------------------ strings
IsSpace(c) == c \in {9, 10, 11, 12, 13, 32}
IsDigit(c) == c \in 48..57

RECURSIVE LStrip(_)
LStrip(s) == IF s # <<>> /\ IsSpace(Head(s)) THEN LStrip(Tail(s)) ELSE s

RECURSIVE RStrip(_)
RStrip(s) ==
    IF s # <<>> /\ IsSpace(s[Len(s)]) THEN RStrip(SubSeq(s, 1, Len(s) - 1)) ELSE s

Strip(s) == RStrip(LStrip(s))

Lower(c) == IF c \in 65..90 THEN c + 32 ELSE c
LowerStr(s) == [i \in 1..Len(s) |-> Lower(s[i])]

RECURSIVE DigitsValue(_, _)
DigitsValue(s, acc) ==
    IF s = <<>> THEN acc ELSE DigitsValue(Tail(s), 10 * acc + (Head(s) - 48))

Pow10(n) == CASE n = 0 -> 1 [] n = 1 -> 10 [] n = 2 -> 100 [] n = 3 -> 1000
              [] n = 4 -> 10000 [] OTHER -> 0

\* value of the fraction digits of a literal, in fixed point (digits beyond
\* the fixed-point resolution are dropped)
RECURSIVE FracValue(_, _)
FracValue(s, pos) ==
    IF s = <<>> \/ Pow10(pos) = 0 \/ Pow10(pos) > Scale THEN 0
    ELSE (Head(s) - 48) * (Scale \div Pow10(pos)) + FracValue(Tail(s), pos + 1)

\* the digits of a literal whose point, if any, is at index dot: every other
\* character must be a digit and there must be at least one
ParseDecimal(body, neg, dot) ==
    IF \/ \E i \in 1..Len(body) : i # dot /\ ~IsDigit(body[i])
       \/ Len(body) = 0
       \/ (Len(body) = 1 /\ dot = 1)
    THEN Raise("ValueError")
    ELSE Ok(Num((IF neg THEN 0 - 1 ELSE 1)
                * (DigitsValue(SubSeq(body, 1, dot - 1), 0) * Scale
                   + FracValue(SubSeq(body, dot + 1, Len(body)), 1))))

\* index of the first point of a literal, Len + 1 when it has none
DotIndex(body) ==
    IF \E i \in 1..Len(body) : body[i] = 46
    THEN CHOOSE i \in 1..Len(body) :
            body[i] = 46 /\ \A k \in 1..(i - 1) : body[k] # 46
    ELSE Len(body) + 1

\* a literal without its sign: nan, inf, infinity (any case) or digits
ParseBody(body, neg) ==
    IF LowerStr(body) = <<110, 97, 110>> THEN Ok(NaN)
    ELSE IF LowerStr(body) \in {<<105, 110, 102>>,
                                <<105, 110, 102, 105, 110, 105, 116, 121>>}
         THEN Ok(PosInf)
    ELSE ParseDecimal(body, neg, DotIndex(body))

\* a literal without the surrounding whitespace: an optional sign first
ParseSigned(t) ==
    IF t # <<>> /\ t[1] \in {43, 45} THEN ParseBody(Tail(t), t[1] = 45)
    ELSE ParseBody(t, FALSE)

\* float(<str>): surrounding whitespace, an optional sign, then nan / inf /
\* infinity or decimal digits with at most one point and at least one digit.
\* (Exponent and underscore forms are not in the probed alphabet.)
StrToFloat(s) == ParseSigned(Strip(s))

\* float(value) for a decoded JSON value
float(value) ==
    CASE value.j = "str" -> StrToFloat(value.s)
      [] value.j = "num" -> Ok(Num(value.v))
      [] value.j = "inf" -> Ok(PosInf)
      [] value.j = "bool" -> Ok(Num(IF value.b THEN Scale ELSE 0))
      [] value.j = "bigint" -> Raise("OverflowError")
      [] OTHER -> Raise("TypeError")

\* the except clause of _parse_numeric: ValueError and TypeError give None
swallow(r) == IF r.exc \in {"ValueError", "TypeError"} THEN Ok(None) ELSE r

\* MOENVAQIAPI._parse_numeric
_parse_numeric(value) ==
    IF value = JNull \/ value = JStr(<<>>) \/ value = JStr(<<45>>) THEN Ok(None)
    ELSE swallow(float(value))

\* ------------------------------------------------------ raw records
\* the keys of a raw record that the model follows; the remaining keys of
\* extract_aqi_data are read the same way ('siteid', 'status', ... as
\* strings, 'pm2.5', 'pm10', ... through _parse_numeric)
Keys == {"sitename", "county", "aqi", "latitude", "longitude"}

\* record.get(key): None when the key is absent
get(record, key) == IF key \in DOMAIN record.f THEN record.f[key] ELSE JNull
\* record.get(key, ''): the empty string when the key is absent
get_str(record, key) == IF key \in DOMAIN record.f THEN record.f[key] ELSE JStr(<<>>)

\* the station_info dict, once its numeric fields are parsed
station_dict(record, aqi, lat, lon) ==
    IF aqi.exc # "none" THEN Raise(aqi.exc)
    ELSE IF lat.exc # "none" THEN Raise(lat.exc)
    ELSE IF lon.exc # "none" THEN Raise(lon.exc)
    ELSE Ok([site_name |-> get_str(record, "sitename").s,
             county |-> get_str(record, "county").s,
             aqi |-> aqi.val,
             latitude |-> lat.val,
             longitude |-> lon.val])

\* the body of the try block of extract_aqi_data for one element
station_info(record) ==
    IF record.j # "obj" THEN Raise("AttributeError")     \* no .get on a non-mapping
    ELSE station_dict(record,
                      _parse_numeric(get(record, "aqi")),
                      _parse_numeric(get(record, "latitude")),
                      _parse_numeric(get(record, "longitude")))

\* one turn of the loop of extract_aqi_data: h is the outcome for the
\* element, rest the outcome for the elements behind it.  ValueError,
\* KeyError and TypeError skip the element, any other exception leaves the call
extract_step(h, rest) ==
    IF h.exc \in {"ValueError", "KeyError", "TypeError"} THEN rest
    ELSE IF h.exc # "none" THEN Raise(h.exc)
    ELSE IF rest.exc # "none" THEN rest
    ELSE Ok(<<h.val>> \o rest.val)

\* MOENVAQIAPI.extract_aqi_data
RECURSIVE extract_aqi_data(_)
extract_aqi_data(records) ==
    IF records = <<>> THEN Ok(<<>>)
    ELSE extract_step(station_info(Head(records)), extract_aqi_data(Tail(records)))

\* ---------------------------------------------------------- tables
\* pd.DataFrame(list of dicts): a column holding at least one float is a
\* float column and its None entries become NaN; a column of None only
\* stays an object column of None
CoerceColumn(rows, col) ==
    IF \E i \in 1..Len(rows) : rows[i][col].t # "None"
    THEN [i \in 1..Len(rows) |->
             IF rows[i][col].t = "None" THEN [rows[i] EXCEPT ![col] = NaN] ELSE rows[i]]
    ELSE rows

DataFrame(rows) ==
    CoerceColumn(CoerceColumn(CoerceColumn(rows, "aqi"), "latitude"), "longitude")

\* str < str: code points, left to right, a proper prefix first
RECURSIVE StrLess(_, _)
StrLess(a, b) ==
    IF b = <<>> THEN FALSE
    ELSE IF a = <<>> THEN TRUE
    ELSE IF Head(a) # Head(b) THEN Head(a) < Head(b)
    ELSE StrLess(Tail(a), Tail(b))

\* KeyLess comparing the county only
KeyLess_county_only(r, s) == StrLess(r.county, s.county)

\* the row r sorts strictly before the row s under ['county', 'site_name']
KeyLess(r, s) ==
    \/ StrLess(r.county, s.county)
    \/ r.county = s.county /\ StrLess(r.site_name, s.site_name)

\* put r behind every row that does not sort after it
RECURSIVE InsertByKey(_, _)
InsertByKey(sorted, r) ==
    IF sorted = <<>> THEN <<r>>
    ELSE IF KeyLess(r, Head(sorted)) THEN <<r>> \o sorted
    ELSE <<Head(sorted)>> \o InsertByKey(Tail(sorted), r)

RECURSIVE SortFrom(_, _)
SortFrom(rows, sorted) ==
    IF rows = <<>> THEN sorted ELSE SortFrom(Tail(rows), InsertByKey(sorted, Head(rows)))

\* sort_values whose result is dropped: the rows stay as they came
sort_values_not_applied(df) == df

\* df.sort_values(['county', 'site_name']): ascending, rows with equal keys
\* keep their order
sort_values(df) == SortFrom(df, <<>>)

\* the not-empty branch of get_aqi_dataframe
sorted_frame(df) == Ok(IF df # <<>> THEN sort_values(df) ELSE df)

\* get_aqi_dataframe from the outcome of extract_aqi_data on
frame_of(aqi_records) ==
    IF aqi_records.exc # "none" THEN Raise(aqi_records.exc)
    ELSE sorted_frame(DataFrame(aqi_records.val))

\* MOENVAQIAPI.get_aqi_dataframe, given what fetch_aqi_data returned or raised
get_aqi_dataframe(fetched) ==
    IF fetched.exc # "none" THEN Raise(fetched.exc)
    ELSE frame_of(extract_aqi_data(fetched.val))

\* ------------------------------------------------- distance analysis
\* DistanceAnalyzer.taipei_station (25.0478, 121.5170)
taipei_station == [latitude |-> 250478, longitude |-> 1215170]

\* values of the Haversine formula of calculate_distance (R = 6371.0 km)
\* between the coordinates of the model's points, in both argument orders:
\* <<lat1, lon1, lat2, lon2, km * Scale>>
HaversineTable ==
    { <<250478, 1215170, 250478, 1215170, 0>>,
      <<250478, 1215170, 250500, 1215200, 3888>>,
      <<250478, 1215170, 252000, 1216000, 188743>>,
      <<250478, 1215170, 226300, 1203000, 2959668>>,
      <<250478, 1215170, 0 - 252000, 0 - 584000, 199962125>>,
      <<250500, 1215200, 250478, 1215170, 3888>>,
      <<250500, 1215200, 250500, 1215200, 0>>,
      <<250500, 1215200, 252000, 1216000, 185220>>,
      <<250500, 1215200, 226300, 1203000, 2963162>>,
      <<250500, 1215200, 0 - 252000, 0 - 584000, 199965648>>,
      <<252000, 1216000, 250478, 1215170, 188743>>,
      <<252000, 1216000, 250500, 1215200, 185220>>,
      <<252000, 1216000, 252000, 1216000, 0>>,
      <<252000, 1216000, 226300, 1203000, 3148366>>,
      <<226300, 1203000, 250478, 1215170, 2959668>>,
      <<226300, 1203000, 250500, 1215200, 2963162>>,
      <<226300, 1203000, 252000, 1216000, 3148366>>,
      <<226300, 1203000, 226300, 1203000, 0>>,
      <<226300, 1203000, 0 - 252000, 0 - 584000, 197002502>>,
      <<0 - 252000, 0 - 584000, 250478, 1215170, 199962125>>,
      <<0 - 252000, 0 - 584000, 250500, 1215200, 199965648>>,
      <<0 - 252000, 0 - 584000, 226300, 1203000, 197002502>>,
      <<0 - 252000, 0 - 584000, 0 - 252000, 0 - 584000, 0>>,
      <<248000, 1209700, 250478, 1215170, 616582>>,
      <<0, 1215200, 250478, 1215170, 27851883>>,
      <<0, 0, 250478, 1215170, 131507504>> }

\* argument pairs at which the formula leaves the domain of math.sqrt: for
\* these two antipodes a comes out above 1 and math.sqrt(1 - a) raises
HaversineDomainErrors ==
    { <<252000, 1216000, 0 - 252000, 0 - 584000>>,
      <<0 - 252000, 0 - 584000, 252000, 1216000>> }

\* DistanceAnalyzer.calculate_distance: math.sin of an infinite angle is a
\* math domain error, a NaN argument gives NaN
calculate_distance(lat1, lon1, lat2, lon2) ==
    IF "inf" \in {lat1.t, lon1.t, lat2.t, lon2.t} THEN Raise("ValueError")
    ELSE IF "nan" \in {lat1.t, lon1.t, lat2.t, lon2.t} THEN Ok(NaN)
    ELSE IF <<lat1.v, lon1.v, lat2.v, lon2.v>> \in HaversineDomainErrors
         THEN Raise("ValueError")
    ELSE Ok(Num((CHOOSE e \in HaversineTable :
                    /\ e[1] = lat1.v /\ e[2] = lon1.v
                    /\ e[3] = lat2.v /\ e[4] = lon2.v)[5]))

\* _get_distance_category with the first threshold exclusive
category_exclusive_bound(distance) ==
    IF distance < 10 * Scale THEN "urban-core"
    ELSE IF distance <= 30 * Scale THEN "metro-region"
    ELSE IF distance <= 100 * Scale THEN "northern-region"
    ELSE IF distance <= 200 * Scale THEN "central-region"
    ELSE "southern-region"

\* DistanceAnalyzer._get_distance_category (distance in km * Scale)
_get_distance_category(distance) ==
    IF distance <= 10 * Scale THEN "urban-core"             \* '台北市區'
    ELSE IF distance <= 30 * Scale THEN "metro-region"      \* '北北基桃'
    ELSE IF distance <= 100 * Scale THEN "northern-region"  \* '北部地區'
    ELSE IF distance <= 200 * Scale THEN "central-region"   \* '中部地區'
    ELSE "southern-region"                                  \* '南部地區'

\* the filter of analyze_distances and create_aqi_map:
\* latitude.notna() & longitude.notna() & (latitude != 0) & (longitude != 0)
valid_coordinates(r) ==
    /\ notna(r.latitude) /\ notna(r.longitude)
    /\ ~(IsNum(r.latitude) /\ r.latitude.v = 0)
    /\ ~(IsNum(r.longitude) /\ r.longitude.v = 0)

valid_df(df) == SelectSeq(df, valid_coordinates)

\* the loop of analyze_distances ending at the first exception
distance_row_ends_loop(row, distance, rest) ==
    IF distance.exc # "none" THEN <<>>
    ELSE <<[site_name |-> row.site_name,
            county |-> row.county,
            latitude |-> row.latitude,
            longitude |-> row.longitude,
            aqi |-> row.aqi,
            distance_to_taipei |-> distance.val.v,
            distance_category |-> _get_distance_category(distance.val.v)]>> \o rest

\* one turn of the loop of analyze_distances: an exception skips the row
distance_row(row, distance, rest) ==
    IF distance.exc # "none" THEN rest
    ELSE <<[site_name |-> row.site_name,
            county |-> row.county,
            latitude |-> row.latitude,
            longitude |-> row.longitude,
            aqi |-> row.aqi,
            distance_to_taipei |-> distance.val.v,
            distance_category |-> _get_distance_category(distance.val.v)]>> \o rest

\* the loop of analyze_distances
RECURSIVE distance_rows(_)
distance_rows(rows) ==
    IF rows = <<>> THEN <<>>
    ELSE distance_row(Head(rows),
                      calculate_distance(Head(rows).latitude, Head(rows).longitude,
                                         Num(taipei_station.latitude),
                                         Num(taipei_station.longitude)),
                      distance_rows(Tail(rows)))

Injections(n) == {p \in [1..n -> 1..n] : \A i, j \in 1..n : p[i] = p[j] => i = j}

\* the sort by distance whose result is dropped
sort_by_distance_not_applied(df) == {df}

\* result_df.sort_values('distance_to_taipei'): ascending; the default sort
\* is not stable, so rows of equal distance come in any order
sort_by_distance(df) ==
    {[i \in 1..Len(df) |-> df[p[i]]] : p \in
        {q \in Injections(Len(df)) :
            \A i \in 1..(Len(df) - 1) :
                df[q[i]].distance_to_taipei <= df[q[i + 1]].distance_to_taipei}}

\* the end of analyze_distances: sorting a table without rows, and so
\* without columns, is a KeyError
sorted_result(result_df) ==
    IF result_df = <<>> THEN {Raise("KeyError")}
    ELSE {Ok(s) : s \in sort_by_distance(result_df)}

\* analyze_distances from the outcome of get_aqi_dataframe on
analyze_table(got) ==
    IF got.exc # "none" THEN {Raise(got.exc)}
    ELSE IF got.val = <<>> THEN {Raise("ValueError")}
    ELSE sorted_result(DataFrame(distance_rows(valid_df(got.val))))

\* analyze_distances handing back the empty table when no row was computed
analyze_table_empty_ok(got) ==
    IF got.exc # "none" THEN {Raise(got.exc)}
    ELSE IF got.val = <<>> THEN {Raise("ValueError")}
    ELSE IF valid_df(got.val) = <<>> THEN {Ok(<<>>)}
    ELSE sorted_result(DataFrame(distance_rows(valid_df(got.val))))

analyze_distances_empty_table(fetched) == analyze_table_empty_ok(get_aqi_dataframe(fetched))

\* DistanceAnalyzer.analyze_distances: the set of its possible outcomes
analyze_distances(fetched) == analyze_table(get_aqi_dataframe(fetched))

\* ------------------------------------------------------- statistics
EmptyDict == [k \in {} |-> 0]      \* {}

RECURSIVE Sum(_)
Sum(xs) == IF xs = <<>> THEN 0 ELSE Head(xs) + Sum(Tail(xs))

Min(xs) == CHOOSE x \in {xs[i] : i \in 1..Len(xs)} : \A i \in 1..Len(xs) : x <= xs[i]
Max(xs) == CHOOSE x \in {xs[i] : i \in 1..Len(xs)} : \A i \in 1..Len(xs) : x >= xs[i]

Count(xs, lo, hi) == Cardinality({i \in 1..Len(xs) : xs[i] >= lo /\ xs[i] <= hi})

RECURSIVE ISqrtIn(_, _, _)
ISqrtIn(n, lo, hi) ==
    IF lo >= hi THEN lo
    ELSE LET mid == (lo + hi + 1) \div 2
         IN  IF mid * mid <= n THEN ISqrtIn(n, mid, hi) ELSE ISqrtIn(n, lo, mid - 1)
ISqrt(n) == ISqrtIn(n, 0, 40000)

\* Series.std(): the sample (n - 1) deviation, NaN for a single value
\* (deviations are taken in tenths to stay inside the integer range)
Std(xs) ==
    IF Len(xs) < 2 THEN NaN
    ELSE LET mean == Sum(xs) \div Len(xs)
             dev == [i \in 1..Len(xs) |-> (xs[i] - mean) \div (Scale \div 10)]
             sq == [i \in 1..Len(xs) |-> dev[i] * dev[i]]
         IN  Num(ISqrt(Sum(sq) \div (Len(xs) - 1)) * (Scale \div 10))

\* the six bands of get_aqi_statistics, (min_val, max_val) in AQI units
aqi_categories ==
    [good |-> <<0, 50>>, moderate |-> <<51, 100>>,
     unhealthy_sensitive |-> <<101, 150>>, unhealthy_all |-> <<151, 200>>,
     very_unhealthy |-> <<201, 300>>, hazardous |-> <<301, 500>>]

\* dropna() keeping the rows without a value, as zeros
dropna_keeps_missing(df) ==
    [i \in 1..Len(df) |-> IF notna(df[i].aqi) THEN df[i].aqi.v ELSE 0]

\* df['aqi'].dropna(), as fixed-point numbers
dropna_aqi(df) ==
    LET kept == SelectSeq(df, LAMBDA r : notna(r.aqi))
    IN  [i \in 1..Len(kept) |-> kept[i].aqi.v]

\* the statistics of get_aqi_statistics over the values present
aqi_stats(df, valid_aqi) ==
    IF valid_aqi = <<>> THEN EmptyDict
    ELSE [total_stations |-> Len(df),
          stations_with_data |-> Len(valid_aqi),
          aqi_mean |-> Sum(valid_aqi) \div Len(valid_aqi),
          aqi_max |-> Max(valid_aqi),
          aqi_min |-> Min(valid_aqi),
          aqi_std |-> Std(valid_aqi),
          categories |->
              [c \in DOMAIN aqi_categories |->
                  Count(valid_aqi, aqi_categories[c][1] * Scale,
                        aqi_categories[c][2] * Scale)]]

\* MOENVAQIAPI.get_aqi_statistics
get_aqi_statistics(df) ==
    IF df = <<>> THEN EmptyDict ELSE aqi_stats(df, dropna_aqi(df))

\* Series.median() of an ascending list
Median(xs) ==
    IF Len(xs) % 2 = 1 THEN xs[(Len(xs) + 1) \div 2]
    ELSE (xs[Len(xs) \div 2] + xs[Len(xs) \div 2 + 1]) \div 2

RECURSIVE InsertAsc(_, _)
InsertAsc(sorted, x) ==
    IF sorted = <<>> THEN <<x>>
    ELSE IF x < Head(sorted) THEN <<x>> \o sorted
    ELSE <<Head(sorted)>> \o InsertAsc(Tail(sorted), x)

RECURSIVE Ascending(_)
Ascending(xs) == IF xs = <<>> THEN <<>> ELSE InsertAsc(Ascending(Tail(xs)), Head(xs))

\* DistanceAnalyzer.get_distance_statistics
get_distance_statistics(df) ==
    IF df = <<>> THEN EmptyDict
    ELSE LET dist == [i \in 1..Len(df) |-> df[i].distance_to_taipei]
             labels == {df[i].distance_category : i \in 1..Len(df)}
             nearest == df[1]
             farthest == df[Len(df)]
         IN  [total_stations |-> Len(df),
              min_distance |-> Min(dist),
              max_distance |-> Max(dist),
              mean_distance |-> Sum(dist) \div Len(df),
              median_distance |-> Median(Ascending(dist)),
              categories |->
                  [c \in labels |->
                      Cardinality({i \in 1..Len(df) : df[i].distance_category = c})],
              nearest_station |-> [name |-> nearest.site_name,
                                   county |-> nearest.county,
                                   distance |-> nearest.distance_to_taipei],
              farthest_station |-> [name |-> farthest.site_name,
                                    county |-> farthest.county,
                                    distance |-> farthest.distance_to_taipei]]

\* ----------------------------------------------------------- the maps
\* Python's  x <= n  for a float x: false for NaN and for +inf
PyLe(x, n) == IsNum(x) /\ x.v <= n

\* AQIMapVisualizer.get_aqi_color
get_aqi_color(aqi_value) ==
    IF aqi_value.t = "None" THEN "grey"                      \* '#808080'
    ELSE IF PyLe(aqi_value, 50 * Scale) THEN "green"      \* '#00E400'
    ELSE IF PyLe(aqi_value, 100 * Scale) THEN "yellow"    \* '#FFFF00'
    ELSE "red"                                            \* '#FF0000'

\* AQIMapVisualizer.get_aqi_level
get_aqi_level(aqi_value) ==
    IF aqi_value.t = "None" THEN "no-data"                   \* '無數據'
    ELSE IF PyLe(aqi_value, 50 * Scale) THEN "good"       \* '良好'
    ELSE IF PyLe(aqi_value, 100 * Scale) THEN "moderate"  \* '普通'
    ELSE "unhealthy"                                      \* '不健康'

\* the marker loop of create_aqi_map
markers_of(rows) ==
    [i \in 1..Len(rows) |->
        [site_name |-> rows[i].site_name,
         latitude |-> rows[i].latitude,
         longitude |-> rows[i].longitude,
         aqi |-> rows[i].aqi,
         color |-> get_aqi_color(rows[i].aqi),
         level |-> get_aqi_level(rows[i].aqi)]]

\* create_aqi_map from the rows with valid coordinates on
map_of(rows) ==
    IF rows = <<>> THEN Raise("ValueError")
    ELSE Ok([markers |-> markers_of(rows), stats |-> get_aqi_statistics(rows)])

\* create_aqi_map from the outcome of get_aqi_dataframe on
map_of_table(got) ==
    IF got.exc # "none" THEN Raise(got.exc)
    ELSE IF got.val = <<>> THEN Raise("ValueError")
    ELSE map_of(valid_df(got.val))

\* AQIMapVisualizer.create_aqi_map: the markers and the statistics panel
create_aqi_map(fetched) == map_of_table(get_aqi_dataframe(fetched))

\* the filter of create_heatmap:
\* latitude.notna() & longitude.notna() & aqi.notna()
heat_rows(df) ==
    SelectSeq(df, LAMBDA r : notna(r.latitude) /\ notna(r.longitude) /\ notna(r.aqi))

\* heat_data of the rows create_heatmap keeps
heat_of(rows) ==
    IF rows = <<>> THEN Raise("ValueError")
    ELSE Ok([i \in 1..Len(rows) |-> <<rows[i].latitude, rows[i].longitude, rows[i].aqi>>])

\* create_heatmap from the outcome of get_aqi_dataframe on; a table without
\* rows has no 'latitude' column
heat_of_table(got) ==
    IF got.exc # "none" THEN Raise(got.exc)
    ELSE IF got.val = <<>> THEN Raise("KeyError")
    ELSE heat_of(heat_rows(got.val))

\* AQIMapVisualizer.create_heatmap: heat_data
create_heatmap(fetched) == heat_of_table(get_aqi_dataframe(fetched))

\* ---------------------------------------------------------- inputs
\* the elements an upstream snapshot is made of (strings as code points)
\* A: Taipei, (25.05, 121.52), AQI 30
StationA == JObj([sitename |-> JStr(<<65>>),
                      county |-> JStr(<<84>>),
                      aqi |-> JStr(<<51, 48>>),
                      latitude |-> JStr(<<50, 53, 46, 48, 53>>),
                      longitude |-> JStr(<<49, 50, 49, 46, 53, 50>>)])

\* A again with another reading: same county and site name, AQI 50.5
StationA2 == JObj([sitename |-> JStr(<<65>>),
                       county |-> JStr(<<84>>),
                       aqi |-> JStr(<<53, 48, 46, 53>>),
                       latitude |-> JStr(<<50, 53, 46, 48, 53>>),
                       longitude |-> JStr(<<49, 50, 49, 46, 53, 50>>)])

\* B: (25.20, 121.60), AQI 80
StationB == JObj([sitename |-> JStr(<<66>>),
                      county |-> JStr(<<78>>),
                      aqi |-> JStr(<<56, 48>>),
                      latitude |-> JStr(<<50, 53, 46, 50, 48>>),
                      longitude |-> JStr(<<49, 50, 49, 46, 54, 48>>)])

\* C: coordinates missing (empty strings), AQI 120
StationC == JObj([sitename |-> JStr(<<67>>),
                      county |-> JStr(<<75>>),
                      aqi |-> JStr(<<49, 50, 48>>),
                      latitude |-> JStr(<<>>),
                      longitude |-> JStr(<<>>)])

\* D: (22.63, 120.30), no 'aqi' key
StationD == JObj([sitename |-> JStr(<<68>>),
                      county |-> JStr(<<75, 72>>),
                      latitude |-> JStr(<<50, 50, 46, 54, 51>>),
                      longitude |-> JStr(<<49, 50, 48, 46, 51, 48>>)])

\* H: (24.80, 120.97), AQI 501 (beyond the scale)
StationH == JObj([sitename |-> JStr(<<72>>),
                      county |-> JStr(<<72>>),
                      aqi |-> JStr(<<53, 48, 49>>),
                      latitude |-> JStr(<<50, 52, 46, 56, 48>>),
                      longitude |-> JStr(<<49, 50, 48, 46, 57, 55>>)])

\* Z: the (0, 0) sentinel, no 'county' key, AQI 30
StationZ == JObj([sitename |-> JStr(<<90>>),
                      aqi |-> JStr(<<51, 48>>),
                      latitude |-> JStr(<<48>>),
                      longitude |-> JStr(<<48>>)])

\* L: latitude 0 with longitude 121.52, AQI 80
StationL == JObj([sitename |-> JStr(<<76>>),
                      county |-> JStr(<<84>>),
                      aqi |-> JStr(<<56, 48>>),
                      latitude |-> JStr(<<48>>),
                      longitude |-> JStr(<<49, 50, 49, 46, 53, 50>>)])

\* I: an infinite latitude (the literal 1e999), AQI 30
StationI == JObj([sitename |-> JStr(<<73>>),
                      county |-> JStr(<<78>>),
                      aqi |-> JStr(<<51, 48>>),
                      latitude |-> JInf,
                      longitude |-> JStr(<<49, 50, 49, 46, 53, 50>>)])

\* an element that is not a mapping: the string "x"
NotAMapping == JStr(<<120>>)

RawSamples ==
    {StationA, StationA2, StationB, StationC, StationD, StationH, StationZ,
     StationL, StationI, NotAMapping}

Snapshots == UNION {[1..n -> RawSamples] : n \in 0..MaxRecords}

\* the characters of the probed strings: space - . 0 5 a n
Alphabet == {32, 45, 46, 48, 53, 97, 110}
Strings == UNION {[1..n -> Alphabet] : n \in 0..MaxLen}

ParseInputs ==
    {JNull, JInf, JBig, JBool(TRUE), JBool(FALSE), JList, JNum(0), JNum(505000)}
    \cup {JStr(s) : s \in Strings}

DistanceInputs ==
    {0, 500 * Scale}
    \cup {t * Scale + e : t \in {10, 30, 100, 200}, e \in (0 - Delta)..Delta}

AqiInputs ==
    {None, Num(505000)}
    \cup {Num(t * Scale + e) : t \in {0, 50, 100}, e \in (0 - Delta)..Delta}

\* points to call calculate_distance on: the reference point, three
\* stations, and the antipode of the second station
Points ==
    { [latitude |-> 250478, longitude |-> 1215170],
      [latitude |-> 250500, longitude |-> 1215200],
      [latitude |-> 252000, longitude |-> 1216000],
      [latitude |-> 226300, longitude |-> 1203000],
      [latitude |-> 0 - 252000, longitude |-> 0 - 584000] }

\* fetch_aqi_data: the snapshot, or the Exception of a failed request
fetch_aqi_data(snapshot) == {Ok(snapshot), Raise("Exception")}

\* ------------------------------------------------------------- state
VARIABLES
    upstream,      \* the snapshot the upstream source delivers
    pc,            \* position of run_aqi_analysis
    df,            \* step 1: the normalized table of main.py
    distance_df,   \* step 2: the table of analyze_distances
    aqi_map,       \* step 3: markers and statistics panel of create_aqi_map
    heat_data,     \* step 3: the points of create_heatmap
    saved,         \* step 4: the rows written by save_distance_data
    stats,         \* step 5: get_distance_statistics(distance_df)
    result,        \* what run_aqi_analysis returned: "none", "True", "False"
    raised,        \* the exception that ended the run, and the call it left
    probe          \* the last direct call of a pure function

vars == <<upstream, pc, df, distance_df, aqi_map, heat_data, saved, stats,
          result, raised, probe>>

NoProbe == [fn |-> "none"]
NoMap == [markers |-> <<>>, stats |-> EmptyDict]
NotRaised == [exc |-> "none", in |-> "none"]

Init ==
    /\ upstream = <<>>
    /\ pc = "idle"
    /\ df = <<>>
    /\ distance_df = <<>>
    /\ aqi_map = NoMap
    /\ heat_data = <<>>
    /\ saved = <<>>
    /\ stats = EmptyDict
    /\ result = "none"
    /\ raised = NotRaised
    /\ probe = NoProbe

run == <<upstream, pc, df, distance_df, aqi_map, heat_data, saved, stats,
         result, raised>>

\* ---------------------------------------- direct calls of pure functions
ProbeParseNumeric ==
    /\ pc = "idle" /\ probe = NoProbe
    /\ \E value \in ParseInputs :
          probe' = [fn |-> "_parse_numeric", arg |-> value,
                    out |-> _parse_numeric(value)]
    /\ UNCHANGED run

ProbeDistanceCategory ==
    /\ pc = "idle" /\ probe = NoProbe
    /\ \E distance \in DistanceInputs :
          probe' = [fn |-> "_get_distance_category", arg |-> distance,
                    out |-> _get_distance_category(distance)]
    /\ UNCHANGED run

ProbeAqiLevel ==
    /\ pc = "idle" /\ probe = NoProbe
    /\ \E aqi_value \in AqiInputs :
          probe' = [fn |-> "get_aqi_level", arg |-> aqi_value,
                    out |-> [color |-> get_aqi_color(aqi_value),
                             level |-> get_aqi_level(aqi_value)]]
    /\ UNCHANGED run

\* extract_aqi_data on a decoded response
ProbeExtract ==
    /\ pc = "idle" /\ probe = NoProbe
    /\ \E snapshot \in Snapshots :
          probe' = [fn |-> "extract_aqi_data", arg |-> snapshot,
                    out |-> extract_aqi_data(snapshot)]
    /\ UNCHANGED run

\* analyze_distances called on its own, as main() of distance_analysis.py does
ProbeAnalyzeDistances ==
    /\ pc = "idle" /\ probe = NoProbe
    /\ \E snapshot \in Snapshots :
       \E fetched \in fetch_aqi_data(snapshot) :
       \E got \in analyze_distances(fetched) :
          probe' = [fn |-> "analyze_distances", arg |-> snapshot,
                    fetched |-> fetched.exc = "none", out |-> got]
    /\ UNCHANGED run

\* get_aqi_statistics on the table of get_aqi_dataframe, as main() of
\* moenv_aqi_api.py calls it
ProbeAqiStatistics ==
    /\ pc = "idle" /\ probe = NoProbe
    /\ \E snapshot \in Snapshots :
       \E got \in {get_aqi_dataframe(Ok(snapshot))} :
          /\ got.exc = "none"
          /\ probe' = [fn |-> "get_aqi_statistics", arg |-> got.val,
                       out |-> get_aqi_statistics(got.val)]
    /\ UNCHANGED run

\* get_distance_statistics called on a distance table: the rows of a table
\* of analyze_distances, in the order p the caller holds them
ProbeDistanceStatistics ==
    /\ pc = "idle" /\ probe = NoProbe
    /\ \E snapshot \in Snapshots :
       \E got \in analyze_distances(Ok(snapshot)) :
          /\ got.exc = "none"
          /\ \E p \in Injections(Len(got.val)) :
             \E table \in {[i \in 1..Len(got.val) |-> got.val[p[i]]]} :
                probe' = [fn |-> "get_distance_statistics", arg |-> table,
                          out |-> get_distance_statistics(table)]
    /\ UNCHANGED run

\* calculate_distance between two points, in both argument orders
ProbeCalculateDistance ==
    /\ pc = "idle" /\ probe = NoProbe
    /\ \E a \in Points : \E b \in Points :
          probe' = [fn |-> "calculate_distance", arg |-> <<a, b>>,
                    out |-> calculate_distance(Num(a.latitude), Num(a.longitude),
                                               Num(b.latitude), Num(b.longitude)),
                    back |-> calculate_distance(Num(b.latitude), Num(b.longitude),
                                                Num(a.latitude), Num(a.longitude))]
    /\ UNCHANGED run

\* ------------------------------------------------------------ the run
\* main() calls run_aqi_analysis on what the upstream holds
Start ==
    /\ pc = "idle"
    /\ probe = NoProbe
    /\ \E snapshot \in Snapshots : upstream' = snapshot
    /\ pc' = "step1"
    /\ probe' = NoProbe
    /\ UNCHANGED <<df, distance_df, aqi_map, heat_data, saved, stats, result, raised>>

\* the except clause of run_aqi_analysis: return False
Fail(exc, call) ==
    /\ pc' = "done"
    /\ result' = "False"
    /\ raised' = [exc |-> exc, in |-> call]

\* step 1: df = api_client.get_aqi_dataframe(); an empty table returns False
Step1 ==
    /\ pc = "step1"
    /\ \E fetched \in fetch_aqi_data(upstream) :
       \E got \in {get_aqi_dataframe(fetched)} :
          IF got.exc # "none"
          THEN Fail(got.exc, "get_aqi_dataframe") /\ UNCHANGED df
          ELSE /\ df' = got.val
               /\ IF got.val = <<>>
                  THEN pc' = "done" /\ result' = "False"
                  ELSE pc' = "step2" /\ UNCHANGED result
               /\ UNCHANGED raised
    /\ UNCHANGED <<upstream, distance_df, aqi_map, heat_data, saved, stats, probe>>

\* step 2: distance_df = distance_analyzer.analyze_distances()
Step2 ==
    /\ pc = "step2"
    /\ \E fetched \in fetch_aqi_data(upstream) :
       \E got \in analyze_distances(fetched) :
          IF got.exc # "none"
          THEN Fail(got.exc, "analyze_distances") /\ UNCHANGED distance_df
          ELSE /\ distance_df' = got.val
               /\ IF got.val = <<>>
                  THEN pc' = "done" /\ result' = "False"
                  ELSE pc' = "step3" /\ UNCHANGED result
               /\ UNCHANGED raised
    /\ UNCHANGED <<upstream, df, aqi_map, heat_data, saved, stats, probe>>

\* step 3, first half: aqi_map = map_visualizer.create_aqi_map(); save_map
Step3Map ==
    /\ pc = "step3"
    /\ \E fetched \in fetch_aqi_data(upstream) :
       \E got \in {create_aqi_map(fetched)} :
          IF got.exc # "none"
          THEN Fail(got.exc, "create_aqi_map") /\ UNCHANGED aqi_map
          ELSE aqi_map' = got.val /\ pc' = "heatmap" /\ UNCHANGED <<result, raised>>
    /\ UNCHANGED <<upstream, df, distance_df, heat_data, saved, stats, probe>>

\* step 3, second half: heatmap = map_visualizer.create_heatmap(); save_map
Step3Heatmap ==
    /\ pc = "heatmap"
    /\ \E fetched \in fetch_aqi_data(upstream) :
       \E got \in {create_heatmap(fetched)} :
          IF got.exc # "none"
          THEN Fail(got.exc, "create_heatmap") /\ UNCHANGED heat_data
          ELSE heat_data' = got.val /\ pc' = "step4" /\ UNCHANGED <<result, raised>>
    /\ UNCHANGED <<upstream, df, distance_df, aqi_map, saved, stats, probe>>

\* step 4: distance_analyzer.save_distance_data(distance_df)
Step4 ==
    /\ pc = "step4"
    /\ saved' = distance_df
    /\ pc' = "step5"
    /\ UNCHANGED <<upstream, df, distance_df, aqi_map, heat_data, stats, result,
                   raised, probe>>

\* step 5: stats = distance_analyzer.get_distance_statistics(distance_df)
Step5 ==
    /\ pc = "step5"
    /\ stats' = get_distance_statistics(distance_df)
    /\ pc' = "step6"
    /\ UNCHANGED <<upstream, df, distance_df, aqi_map, heat_data, saved, result,
                   raised, probe>>

\* step 6: api_client.get_aqi_statistics() is called without its df
\* argument: a TypeError, caught by the except clause
Step6 ==
    /\ pc = "step6"
    /\ Fail("TypeError", "get_aqi_statistics")
    /\ UNCHANGED <<upstream, df, distance_df, aqi_map, heat_data, saved, stats, probe>>

Next ==
    \/ ProbeParseNumeric
    \/ ProbeDistanceCategory
    \/ ProbeAqiLevel
    \/ ProbeExtract
    \/ ProbeAnalyzeDistances
    \/ ProbeAqiStatistics
    \/ ProbeDistanceStatistics
    \/ ProbeCalculateDistance
    \/ Start
    \/ Step1
    \/ Step2
    \/ Step3Map
    \/ Step3Heatmap
    \/ Step4
    \/ Step5
    \/ Step6

Spec == Init /\ [][Next]_vars

\* what the upstream source may hold next
Updates == {<<StationA>>, <<StationB>>, <<StationA, StationB>>, <<StationD, StationA>>}

\* the upstream source replaces its content while a run is between two of
\* its requests: every fetch_aqi_data is a new requests.get
Publish ==
    /\ pc \in {"step2", "step3", "heatmap"}
    /\ \E snapshot \in Updates \ {upstream} : upstream' = snapshot
    /\ UNCHANGED <<pc, df, distance_df, aqi_map, heat_data, saved, stats, result,
                   raised, probe>>

NextChanging ==
    \/ Next
    \/ Publish

\* the run against an upstream source whose content changes
SpecChanging == Init /\ [][NextChanging]_vars

\* ------------------------------------------------------------ claims
DistanceBands ==
    {"urban-core", "metro-region", "northern-region", "central-region",
     "southern-region"}

\* the band the thresholds give a distance d >= 0, interval by interval
InBand(d, band) ==
    /\ band \in DistanceBands
    /\ (d <= 10 * Scale) => band = "urban-core"
    /\ (10 * Scale < d /\ d <= 30 * Scale) => band = "metro-region"
    /\ (30 * Scale < d /\ d <= 100 * Scale) => band = "northern-region"
    /\ (100 * Scale < d /\ d <= 200 * Scale) => band = "central-region"
    /\ (200 * Scale < d) => band = "southern-region"

\* C1: every distance d >= 0 gets exactly the band of its interval (upper
\* bounds inclusive), and every row of analyze_distances carries the band of
\* its own distance_to_taipei.
C1_DistanceBand ==
    /\ probe.fn = "_get_distance_category" => InBand(probe.arg, probe.out)
    /\ \A i \in 1..Len(distance_df) :
          InBand(distance_df[i].distance_to_taipei, distance_df[i].distance_category)

\* a table of analyze_distances whose rows lie in three different bands
C1_Witness ==
    /\ pc = "step3"
    /\ Cardinality({distance_df[i].distance_category : i \in 1..Len(distance_df)}) = 3

\* the run is past step 1 and get_aqi_dataframe returned a table
Fetched == pc \notin {"idle", "step1"} /\ raised.in # "get_aqi_dataframe"

\* C2: in the six bands of get_aqi_statistics every AQI in [0, 500], whole
\* or not, is counted in exactly one band and every other value in none, so
\* the six counts add up to the number of values in [0, 500].
C2_FineBandsCoverScale ==
    aqi_map.stats # EmptyDict =>
        LET m == aqi_map.markers
            inside == {i \in 1..Len(m) :
                          /\ IsNum(m[i].aqi)
                          /\ 0 <= m[i].aqi.v /\ m[i].aqi.v <= 500 * Scale}
            c == aqi_map.stats.categories
        IN  c.good + c.moderate + c.unhealthy_sensitive + c.unhealthy_all
              + c.very_unhealthy + c.hazardous = Cardinality(inside)

\* the coarse class of an AQI value: missing is no-data / grey
Coarse(a, color, level) ==
    /\ ~notna(a) => color = "grey" /\ level = "no-data"
    /\ (IsNum(a) /\ a.v <= 50 * Scale) => color = "green" /\ level = "good"
    /\ (IsNum(a) /\ 50 * Scale < a.v /\ a.v <= 100 * Scale) =>
          color = "yellow" /\ level = "moderate"
    /\ (IsNum(a) /\ 100 * Scale < a.v) => color = "red" /\ level = "unhealthy"

\* C3: get_aqi_level and get_aqi_color give good/green up to 50,
\* moderate/yellow up to 100, unhealthy/red above and no-data/grey for a
\* missing AQI, for a direct call and for every marker of create_aqi_map.
C3_CoarseLevel ==
    /\ probe.fn = "get_aqi_level" => Coarse(probe.arg, probe.out.color, probe.out.level)
    /\ \A i \in 1..Len(aqi_map.markers) :
          Coarse(aqi_map.markers[i].aqi, aqi_map.markers[i].color,
                 aqi_map.markers[i].level)

\* C4: _parse_numeric never raises; None, '' and '-' give None, a value that
\* is no number gives None, a number gives that number and '0' gives 0.
C4_ParseNumericTotal ==
    probe.fn = "_parse_numeric" =>
        /\ probe.out.exc = "none"
        /\ (probe.arg = JNull \/ probe.arg = JStr(<<>>) \/ probe.arg = JStr(<<45>>))
              => probe.out.val = None
        /\ probe.arg.j = "list" => probe.out.val = None
        /\ probe.arg.j = "num" => probe.out.val = Num(probe.arg.v)
        /\ probe.arg = JStr(<<48>>) => probe.out.val = Num(0)

\* C5: extract_aqi_data returns, without raising, one normalized record per
\* element, in order, whatever the elements are.
C5_ExtractKeepsEveryRecord ==
    probe.fn = "extract_aqi_data" =>
        /\ probe.out.exc = "none"
        /\ Len(probe.out.val) = Len(probe.arg)
        /\ \A i \in 1..Len(probe.arg) :
              probe.arg[i].j = "obj" =>
                  /\ probe.out.val[i].site_name = get_str(probe.arg[i], "sitename").s
                  /\ probe.out.val[i].county = get_str(probe.arg[i], "county").s

CountIn(rows, r) == Cardinality({i \in 1..Len(rows) : rows[i] = r})
SameRows(a, b) ==
    /\ Len(a) = Len(b)
    /\ \A i \in 1..Len(a) : CountIn(a, a[i]) = CountIn(b, a[i])

StrLeq(a, b) == a = b \/ StrLess(a, b)
KeyLeq(r, s) ==
    \/ r.county # s.county /\ StrLeq(r.county, s.county)
    \/ r.county = s.county /\ StrLeq(r.site_name, s.site_name)

\* C6: the table of get_aqi_dataframe holds the normalized records, each as
\* often as it came, ascending by county and, within a county, by site_name.
C6_SortedByCountyThenSite ==
    (pc = "step2" /\ Fetched) =>
        /\ SameRows(df, DataFrame(extract_aqi_data(upstream).val))
        /\ \A i \in 1..(Len(df) - 1) : KeyLeq(df[i], df[i + 1])

\* three records out of order, two of them of one county
C6_Witness ==
    /\ pc = "step2" /\ Fetched /\ Len(df) = 3
    /\ df # DataFrame(extract_aqi_data(upstream).val)
    /\ df[2].county = df[3].county /\ df[2].site_name # df[3].site_name

\* the snapshot with its elements in the order p
Permuted(snapshot, p) == [i \in 1..Len(snapshot) |-> snapshot[p[i]]]
KeysOf(rows) == [i \in 1..Len(rows) |-> <<rows[i].county, rows[i].site_name>>]
\* no two different rows have both county and site_name in common
DistinctKeys(rows) ==
    \A i, j \in 1..Len(rows) :
        (rows[i].county = rows[j].county /\ rows[i].site_name = rows[j].site_name)
            => rows[i] = rows[j]

\* C7 as stated: every reordering of the input gives the identical table,
\* also when two different records share county and site_name.
C7_OrderIndependent ==
    (pc = "step2" /\ Fetched) =>
        \A p \in Injections(Len(upstream)) :
            get_aqi_dataframe(Ok(Permuted(upstream, p))).val = df

\* C7 amended: every reordering of the input gives the same sequence of
\* (county, site_name) keys, and the identical table when no two different
\* records share both county and site_name.
C7_OrderIndependentUpToTies ==
    (pc = "step2" /\ Fetched) =>
        \A p \in Injections(Len(upstream)) :
            \E other \in {get_aqi_dataframe(Ok(Permuted(upstream, p))).val} :
                /\ KeysOf(other) = KeysOf(df)
                /\ DistinctKeys(df) => other = df

\* three records that came out of order, no two sharing both keys
C7_Witness ==
    /\ pc = "step2" /\ Fetched /\ Len(df) = 3
    /\ DistinctKeys(df)
    /\ df[1] # df[2] /\ df[2] # df[3]
    /\ df # DataFrame(extract_aqi_data(upstream).val)

IsZero(x) == IsNum(x) /\ x.v = 0

\* C8: (0, 0) stands for "no coordinate": a record at latitude 0, longitude 0
\* is a location in no spatial output, neither a row of the distance table
\* nor a marker of create_aqi_map nor a point of create_heatmap.
C8_ZeroZeroIsNoLocation ==
    /\ \A i \in 1..Len(distance_df) :
          ~(IsZero(distance_df[i].latitude) /\ IsZero(distance_df[i].longitude))
    /\ \A i \in 1..Len(aqi_map.markers) :
          ~(IsZero(aqi_map.markers[i].latitude) /\ IsZero(aqi_map.markers[i].longitude))
    /\ \A i \in 1..Len(heat_data) : ~(IsZero(heat_data[i][1]) /\ IsZero(heat_data[i][2]))

\* valid coordinates: both present, finite and not zero
ValidCoordinates(r) ==
    /\ IsNum(r.latitude) /\ IsNum(r.longitude)
    /\ r.latitude.v # 0 /\ r.longitude.v # 0

Station(r) ==
    [site_name |-> r.site_name, county |-> r.county, latitude |-> r.latitude,
     longitude |-> r.longitude, aqi |-> r.aqi]
Stations(rows) == [i \in 1..Len(rows) |-> Station(rows[i])]

NoValidStation(snapshot) ==
    \E records \in {extract_aqi_data(snapshot)} :
        records.exc = "none" =>
            \A i \in 1..Len(records.val) : ~ValidCoordinates(records.val[i])

\* the run ended with False at step 1 or at step 2
FailedByStep2 ==
    /\ pc = "done" /\ result = "False"
    /\ raised.in \in {"none", "get_aqi_dataframe", "analyze_distances"}
    /\ raised.in = "none" => df = <<>>

\* C10: with no records, or with no record that has valid coordinates,
\* analyze_distances ends in an error, never in an empty table, and
\* run_aqi_analysis stops no later than step 2 and returns False: it is
\* neither past step 2 nor ended in any other way.  (The steps after step 2
\* leave upstream alone, so the state after step 2 and the end are looked at.)
C10_EmptyInputFails ==
    /\ probe.fn = "analyze_distances" =>
          /\ NoValidStation(probe.arg) => probe.out.exc # "none"
          /\ probe.out.exc = "none" => probe.out.val # <<>>
    /\ (pc \in {"step3", "done"} \/ result = "True") =>
          (FailedByStep2 \/ ~NoValidStation(upstream))

\* records arrived, none with valid coordinates, and step 2 ended the run
C10_Witness ==
    /\ pc = "done" /\ result = "False"
    /\ Len(upstream) = 2 /\ Len(df) = 2
    /\ raised = [exc |-> "KeyError", in |-> "analyze_distances"]

\* the AQI values present in a table, by row
Present(rows) == {i \in 1..Len(rows) : notna(rows[i].aqi)}

\* C11: for a table with at least one AQI present, stations_with_data is the
\* number of rows with an AQI, total_stations the number of all rows, and
\* aqi_min <= aqi_mean <= aqi_max with min, max and mean taken over the
\* values present only.
C11_CountsAndMeanBetween ==
    (probe.fn = "get_aqi_statistics" /\ Present(probe.arg) # {}) =>
        /\ probe.out # EmptyDict
        /\ probe.out.total_stations = Len(probe.arg)
        /\ probe.out.stations_with_data = Cardinality(Present(probe.arg))
        /\ probe.out.aqi_min <= probe.out.aqi_mean
        /\ probe.out.aqi_mean <= probe.out.aqi_max
        /\ \A i \in Present(probe.arg) :
              /\ probe.out.aqi_min <= probe.arg[i].aqi.v
              /\ probe.arg[i].aqi.v <= probe.out.aqi_max
        /\ \E i \in Present(probe.arg) : probe.arg[i].aqi.v = probe.out.aqi_min
        /\ \E i \in Present(probe.arg) : probe.arg[i].aqi.v = probe.out.aqi_max

\* three rows, one without AQI, the mean strictly between two values
C11_Witness ==
    /\ probe.fn = "get_aqi_statistics"
    /\ Len(probe.arg) = 3 /\ Cardinality(Present(probe.arg)) = 2
    /\ probe.out.aqi_min < probe.out.aqi_mean
    /\ probe.out.aqi_mean < probe.out.aqi_max

\* C12: aqi_std is the sample deviation, a number >= 0, when more than one
\* AQI is present, and is 0, not NaN, when there is one.
C12_StdZeroForSingleValue ==
    (probe.fn = "get_aqi_statistics" /\ probe.out # EmptyDict) =>
        /\ IsNum(probe.out.aqi_std)
        /\ probe.out.aqi_std.v >= 0
        /\ probe.out.stations_with_data <= 1 => probe.out.aqi_std.v = 0

\* C13: for a table without any AQI, or without rows, get_aqi_statistics
\* returns an aggregate of zeros that has the count field, equal to 0.
C13_ZeroDefaultsWithCount ==
    (probe.fn = "get_aqi_statistics" /\ Present(probe.arg) = {}) =>
        /\ {"stations_with_data", "aqi_mean", "aqi_max", "aqi_min"}
              \subseteq DOMAIN probe.out
        /\ probe.out.stations_with_data = 0
        /\ probe.out.aqi_mean = 0 /\ probe.out.aqi_max = 0 /\ probe.out.aqi_min = 0

\* C14: for a non-empty distance table in any row order, nearest_station is
\* a row at min_distance and farthest_station a row at max_distance.
C14_NearestAndFarthest ==
    (probe.fn = "get_distance_statistics" /\ probe.arg # <<>>) =>
        /\ probe.out.nearest_station.distance = probe.out.min_distance
        /\ probe.out.farthest_station.distance = probe.out.max_distance
        /\ \A i \in 1..Len(probe.arg) :
              /\ probe.out.nearest_station.distance <= probe.arg[i].distance_to_taipei
              /\ probe.arg[i].distance_to_taipei <= probe.out.farthest_station.distance

\* the rows of a distance table in band c, and the AQI values present of a
\* table that get_aqi_statistics counts in band c
RowsInBand(rows, c) == {i \in 1..Len(rows) : rows[i].distance_category = c}
ValuesInBand(rows, c) ==
    {i \in Present(rows) :
        /\ aqi_categories[c][1] * Scale <= rows[i].aqi.v
        /\ rows[i].aqi.v <= aqi_categories[c][2] * Scale}

\* C15: in the categories of get_distance_statistics and of
\* get_aqi_statistics a band is a key exactly when a record falls in it, and
\* its count is the number of those records.
C15_ZeroBandsOmitted ==
    /\ (probe.fn = "get_distance_statistics" /\ probe.arg # <<>>) =>
          /\ DOMAIN probe.out.categories =
                {c \in DistanceBands : RowsInBand(probe.arg, c) # {}}
          /\ \A c \in DOMAIN probe.out.categories :
                probe.out.categories[c] = Cardinality(RowsInBand(probe.arg, c))
    /\ (probe.fn = "get_aqi_statistics" /\ probe.out # EmptyDict) =>
          /\ DOMAIN probe.out.categories =
                {c \in DOMAIN aqi_categories : ValuesInBand(probe.arg, c) # {}}
          /\ \A c \in DOMAIN probe.out.categories :
                probe.out.categories[c] = Cardinality(ValuesInBand(probe.arg, c))

\* computing the distance of the record r to the reference point raises
DistanceRaises(r) ==
    calculate_distance(r.latitude, r.longitude, Num(taipei_station.latitude),
                       Num(taipei_station.longitude)).exc # "none"

\* the records analyze_distances computes a distance for: those its filter
\* lets through
Candidates(rows) == {i \in 1..Len(rows) : valid_coordinates(rows[i])}

\* C16: a record whose distance computation raises is left out and nothing
\* else is: every other record that passed the filter, before or after it,
\* has its row exactly once, and analyze_distances fails for want of rows
\* only when no record succeeds.
C16_OnlyTheFailingRecordIsSkipped ==
    /\ pc = "step3" =>
          \A i \in Candidates(df) :
              CountIn(Stations(distance_df), df[i]) =
                  IF DistanceRaises(df[i]) THEN 0 ELSE CountIn(df, df[i])
    /\ (pc = "done" /\ raised = [exc |-> "KeyError", in |-> "analyze_distances"]) =>
          \A i \in Candidates(df) : DistanceRaises(df[i])

\* the second of three records raises, the first and the third have their rows
C16_Witness ==
    /\ pc = "step3" /\ Len(df) = 3 /\ Candidates(df) = {1, 2, 3}
    /\ DistanceRaises(df[2])
    /\ Stations(distance_df) \in {<<df[1], df[3]>>, <<df[3], df[1]>>}
    /\ df[1] # df[3]

\* station, position and AQI of each marker
MarkerStations(markers) ==
    [i \in 1..Len(markers) |->
        [site_name |-> markers[i].site_name, latitude |-> markers[i].latitude,
         longitude |-> markers[i].longitude, aqi |-> markers[i].aqi]]

\* C17: the outputs of one run come from one set of records, also when the
\* upstream content changes during the run: the distance table, the markers
\* and the heat points are those of the records counted in step 1.
C17_OneSnapshotPerRun ==
    /\ distance_df # <<>> =>
          SameRows(Stations(distance_df), SelectSeq(df, ValidCoordinates))
    /\ aqi_map # NoMap =>
          SameRows(MarkerStations(aqi_map.markers), MarkerStations(valid_df(df)))
    /\ heat_data # <<>> => heat_data = heat_of(heat_rows(df)).val

\* C18: for every pair of points calculate_distance gives a distance >= 0,
\* the same in both argument orders, and 0 from a point to itself.
C18_SymmetricNonNegativeIdentity ==
    probe.fn = "calculate_distance" =>
        /\ probe.out.exc = "none" /\ probe.back.exc = "none"
        /\ probe.out.val.v >= 0
        /\ probe.out.val = probe.back.val
        /\ probe.arg[1] = probe.arg[2] => probe.out.val.v = 0

\* the snapshot normalizes and has a station with valid coordinates and AQI
HasUsableStation(snapshot) ==
    \E records \in {extract_aqi_data(snapshot)} :
        /\ records.exc = "none"
        /\ \E i \in 1..Len(records.val) :
              ValidCoordinates(records.val[i]) /\ IsNum(records.val[i].aqi)

\* C19: a run whose fetches all succeeded, on a snapshot with a station
\* that has valid coordinates and an AQI, ends after its six steps with True.
C19_RunReturnsTrue ==
    (pc = "done" /\ raised.exc # "Exception" /\ HasUsableStation(upstream)) =>
        result = "True"

====
